---- MODULE Spec2Model ----
(***************************************************************************)
(* freshmaker: classification of fedmsg messages into events               *)
(* (freshmaker/events.py, freshmaker/parsers/gitreceive.py) and the        *)
(* signed-RPM handler (freshmaker/handlers/brew/sign_rpm.py): planning the *)
(* image rebuilds, recording the plan and waiting for the ODCS compose.    *)
(***************************************************************************)
EXTENDS Integers, Sequences, FiniteSets, TLC

VARIABLES
    pc,          \* where BrewSignRPMHandler.handle stands
    advisories,  \* _find_images_to_rebuild: the advisories left by the allow_build filter
    batches,     \* handle: the output of _find_images_to_rebuild
    inventory,   \* LightBlue: the parent of every image, as find_images_to_rebuild saw it
    rpm_infos,   \* _find_build_srpm_name: the answer of session.get_build_rpms
    builds,      \* _record_batches: the tmp dict {brew build name: ArtifactBuild id}
    db,          \* the committed rows of the artifact_builds table
    new_compose, \* _prepare_yum_repo: the answer of odcs.new_compose
    state,       \* _prepare_yum_repo: compose['state'] of the latest odcs.get_compose
    statuses,    \* the states the first MaxPolls odcs.get_compose calls answered
    polls,       \* the odcs.get_compose calls made, counted up to MaxPolls + 1
    repo_url,    \* handle: what _prepare_yum_repo returned
    returned,    \* handle: whether it returned, and the list of events it returned
    errors,      \* the log.error lines written, oldest first
    readerView,  \* a concurrent reader: the ids of the event's builds it saw last
    parsers,     \* BaseEvent._parsers: the names of the registered parsers, in the order
                 \* the dict's values() yields them
    topic,       \* the topic last given to from_fedmsg
    msg,         \* the message last given to from_fedmsg
    event,       \* what from_fedmsg returned last
    registration, \* the last register_parser call: the class and the registry before it
    parsed_topics, \* the last get_parsed_topics call: the registry, the prefixes, the result
    incoming,    \* FreshmakerConsumer.incoming: the events waiting for their dispatch
    dispatched,  \* the events given to the handlers so far, oldest first
    calls,       \* the handle calls made so far, oldest first
    passed,      \* the counter messaging_received_passed_total
    advances,    \* the advance requests made to the store, oldest first
    matched,     \* the evaluation of a rule: the rule, the attributes, the result
    decided,     \* the is_allowed call: the tables, the question, the result
    lookup,      \* a _find_images_to_rebuild call: the answers it got, the lookups it made
    asked,       \* a can_handle call of the MBS handler: the event, the answer
    rebuilds     \* a handle_module_built call: the PDC answers, the rebuild_module calls

vars == <<pc, advisories, batches, inventory, rpm_infos, builds, db, new_compose, state, statuses,
          polls, repo_url, returned, errors, readerView, parsers, topic, msg, event,
          registration, parsed_topics,
          incoming, dispatched, calls, passed, advances, matched, decided,
          lookup, asked, rebuilds>>

handlerVars == <<pc, advisories, batches, inventory, rpm_infos, builds, db, new_compose, state, statuses,
                 polls, repo_url, returned, errors, readerView>>

parserVars == <<parsers, topic, msg, event, registration, parsed_topics>>

consumerVars == <<incoming, dispatched, calls, passed>>

storeVars == <<advances>>

ruleVars == <<matched, decided>>

findVars == <<lookup>>

mbsVars == <<asked, rebuilds>>

----------------------------------------------------------------------------
(* Bounds of the model. *)

MaxAdvisories == 2
MaxImages == 3
MaxPolls == 4
MaxConsumed == 2
MaxBuilds == 2
MaxAdvances == 3
MaxChildren == 2
MaxRepoIds == 2
MaxReleases == 2
MaxDepending == 3

----------------------------------------------------------------------------
(* Values. *)

\* Python's None where a name or an URL is expected.
None == "None"

\* handle has not come to the return of _prepare_yum_repo yet.
Unset == "unset"

\* A NULL integer column (depends_on of a build that depends on nothing).
NULL == 0

\* ArtifactType.IMAGE and ArtifactBuildState.PLANNED as _record_batches passes them.
IMAGE == "IMAGE"

PLANNED == "PLANNED"

\* The brew build names the inventory may answer with.
ImageNames == <<"X", "Y", "Z", "W", "V">>

Images == {ImageNames[i] : i \in 1..MaxImages}

\* The signed-RPM event being handled, and an event handled before it.
EventId == "msg-1"

EarlierEventId == "msg-0"

\* compose['state'] values: 0 waiting, 1 generating, 2 done, 4 failed; 3 stands for
\* every value the handler does not know.
ComposeStates == {0, 1, 2, 3, 4}

ComposeIds == {11}

\* from_fedmsg returned None; an event is a record of its class and its fields.
NoEvent == [kind |-> "None"]

\* The rule matcher was not called yet.
NoCall == [called |-> FALSE]

\* No parser was registered yet.
NoRegistration == [parser_class |-> None, before |-> <<>>]

----------------------------------------------------------------------------
(* The external services' answers. *)

\* errata.advisories_from_event: up to MaxAdvisories advisories; `allowed` is what
\* allow_build answers for the advisory, `signed` what errata.builds_signed answers.
Advisory == [allowed : BOOLEAN, signed : BOOLEAN]

AdvisoryAnswers == UNION {[1..n -> Advisory] : n \in 0..MaxAdvisories}

\* The parent image each image of S is layered on: None for a base image, or
\* another image, found to contain the RPM or not.
ParentOf(S) == [S -> Images \cup {None}]

\* The inventory was not asked yet.
NoInventory == [n \in Images |-> None]

\* The sets of found images: the names carry no meaning, so the first k stand for
\* every set of k images.
FoundSets == {{ImageNames[i] : i \in 1..k} : k \in 0..MaxImages}

RECURSIVE Depth(_, _, _, _)
\* The number of ancestors of n that lie in S one after another; -1 when the walk
\* does not end within `fuel` steps (a cycle).
Depth(S, par, n, fuel) ==
    IF par[n] \notin S THEN 0
    ELSE IF fuel = 0 THEN -1
    ELSE LET d == Depth(S, par, par[n], fuel - 1)
         IN  IF d < 0 THEN -1 ELSE d + 1

Acyclic(S, par) == \A n \in S : Depth(S, par, n, Cardinality(S)) >= 0

\* An image as LightBlue hands it to the handler.
Image(n, p) ==
    [name |-> n, parent |-> p, repository |-> "rpms/" \o n, commit |-> "commit-" \o n]

\* LightBlue.find_images_to_rebuild: the found images partitioned into batches by
\* peeling: batch 0 holds the images with no parent among the found ones, batch k
\* those whose parent is in batch k-1. Within a batch the images keep the order of
\* ImageNames.
find_images_to_rebuild(S, par) ==
    LET depth(n) == Depth(S, par, n, Cardinality(S))
        inOrder == [i \in 1..MaxImages |-> ImageNames[i]]
        batch(k) ==
            LET in(n) == n \in S /\ depth(n) = k
                names == SelectSeq(inOrder, in)
            IN  [i \in 1..Len(names) |-> Image(names[i], par[names[i]])]
        deepest == IF S = {} THEN -1
                   ELSE CHOOSE d \in 0..Cardinality(S) :
                            /\ \E n \in S : depth(n) = d
                            /\ \A n \in S : depth(n) <= d
    IN  [k \in 1..(deepest + 1) |-> batch(k - 1)]

\* odcs.new_compose: the id of the new compose and the repository it will make.
ResultRepo(id) == "https://odcs.localhost/composes/odcs-" \o ToString(id) \o "/compose/Temporary"

NewComposeAnswer(id) == [id |-> id, result_repo |-> ResultRepo(id)]

\* conf.odcs_server_url without the slashes at its ends, and the client's API version.
ServerUrlStripped == "https://odcs.localhost"

ApiVersion == "v1"

compose_url_of(compose_id) ==
    ServerUrlStripped \o "/odcs/" \o ApiVersion \o "/composes/" \o ToString(compose_id)

----------------------------------------------------------------------------
(* The artifact_builds table. *)

\* BaseHandler.record_build: one new ArtifactBuild row for the event.
record_build(rows, ev, name, type, build_id, dep_on, st) ==
    [id |-> Len(rows) + 1, name |-> name, type |-> type, state |-> st,
     event_id |-> ev, dep_on |-> dep_on, build_id |-> build_id, build_args |-> None]

\* The rows of the event, oldest first.
RowsOf(rows, ev) == SelectSeq(rows, LAMBDA r : r.event_id = ev)

RECURSIVE Flatten(_)
\* The images of the batches in the order the two loops of _record_batches visit them.
Flatten(bs) == IF bs = <<>> THEN <<>> ELSE Head(bs) \o Flatten(Tail(bs))

\* The tmp dict of _record_batches before its loops.
EmptyDict == [n \in {} |-> NULL]

\* No compose was asked for yet.
NoCompose == [id |-> NULL, result_repo |-> None]

\* No compose state was fetched yet.
NoState == -1

\* A row an earlier event left in the table.
EarlierRow ==
    [id |-> 1, name |-> ImageNames[1], type |-> IMAGE, state |-> PLANNED,
     event_id |-> EarlierEventId, dep_on |-> NULL, build_id |-> 0,
     build_args |-> [repository |-> "rpms/" \o ImageNames[1],
                     commit |-> "commit-" \o ImageNames[1], parent |-> None]]

----------------------------------------------------------------------------
(* BrewSignRPMHandler.handle: its return *)

\* handle is still running, or it raised.
NotReturned == [returned |-> FALSE, events |-> <<>>]

\* handle returned the list `events`.
Returned(events) == [returned |-> TRUE, events |-> events]

\* The repository of the compose returned as further work.
handle_result_with_repo(url) == IF url \in {None, Unset} THEN <<>> ELSE <<url>>

\* return []: the list handle returns; the URL of the repository is not used.
handle_result(url) == <<>>

\* handle going on to the compose with a plan that is empty.
after_find_without_return(b) == IF b = <<>> THEN "prepare" ELSE "record"

\* if not batches: return []; otherwise _record_batches is next.
after_find(b) == IF b = <<>> THEN "done" ELSE "record"

----------------------------------------------------------------------------
(* BrewSignRPMHandler._find_images_to_rebuild *)

\* The answers of session.get_build_rpms(build_nvr, arches='src'): no source RPM,
\* or the one of the build.
RpmInfoAnswers == {<<>>, <<[name |-> "bash"]>>}

\* The record of an answer that was given.
Answered(infos) == [called |-> TRUE, answer |-> infos]

\* _find_build_srpm_name giving no name back in place of raising.
find_build_srpm_name_without_raise(infos) ==
    [raised |-> FALSE, name |-> IF infos = <<>> THEN None ELSE infos[1].name]

\* _find_build_srpm_name: ValueError when the build has no source RPM, and the
\* name of the first one otherwise.
find_build_srpm_name(infos) ==
    IF infos = <<>> THEN [raised |-> TRUE, name |-> None]
    ELSE [raised |-> FALSE, name |-> infos[1].name]

\* The filter that keeps every advisory.
allowed_advisories_unfiltered(raw) == raw

\* The advisories the allow_build filter keeps.
allowed_advisories(raw) == SelectSeq(raw, LAMBDA a : a.allowed)

\* any(...) written for all(...).
any_builds_signed(advs) == \E i \in DOMAIN advs : advs[i].signed

\* all(errata.builds_signed(advisory.errata_id) for advisory in advisories)
all_builds_signed(advs) == \A i \in DOMAIN advs : advs[i].signed

\* handle: no advisory is left by the filter; the plan is empty and handle returns.
FindNoAdvisories ==
    /\ pc = "handle"
    /\ \E raw \in AdvisoryAnswers :
        /\ allowed_advisories(raw) = <<>>
        /\ advisories' = allowed_advisories(raw)
    /\ batches' = <<>>
    /\ pc' = after_find(batches')
    /\ returned' = IF after_find(batches') = "done"
                   THEN Returned(handle_result(repo_url)) ELSE returned
    /\ UNCHANGED <<builds, db, new_compose, state, statuses, polls, repo_url,
                   errors, readerView,
                   inventory, rpm_infos, parserVars, consumerVars, storeVars, ruleVars,
                   findVars, mbsVars>>

\* handle: some advisory left by the filter has unsigned builds; the plan is empty.
FindNotSigned ==
    /\ pc = "handle"
    /\ \E raw \in AdvisoryAnswers :
        /\ allowed_advisories(raw) # <<>>
        /\ ~all_builds_signed(allowed_advisories(raw))
        /\ advisories' = allowed_advisories(raw)
    /\ batches' = <<>>
    /\ pc' = after_find(batches')
    /\ returned' = IF after_find(batches') = "done"
                   THEN Returned(handle_result(repo_url)) ELSE returned
    /\ UNCHANGED <<builds, db, new_compose, state, statuses, polls, repo_url,
                   errors, readerView,
                   inventory, rpm_infos, parserVars, consumerVars, storeVars, ruleVars,
                   findVars, mbsVars>>

\* handle: the build has no source RPM; _find_build_srpm_name raises ValueError.
FindNoSrpm ==
    /\ pc = "handle"
    /\ \E raw \in AdvisoryAnswers :
        /\ allowed_advisories(raw) # <<>>
        /\ all_builds_signed(allowed_advisories(raw))
        /\ advisories' = allowed_advisories(raw)
    /\ \E infos \in RpmInfoAnswers :
        /\ find_build_srpm_name(infos).raised
        /\ rpm_infos' = Answered(infos)
    /\ batches' = <<>>
    /\ pc' = "raised"
    /\ UNCHANGED <<builds, db, new_compose, state, statuses, polls, repo_url, returned,
                   errors, readerView,
                   inventory, parserVars, consumerVars, storeVars, ruleVars,
                   findVars, mbsVars>>

\* handle: the advisories are signed and the inventory is asked for the images.
FindImages ==
    /\ pc = "handle"
    /\ \E raw \in AdvisoryAnswers :
        /\ allowed_advisories(raw) # <<>>
        /\ all_builds_signed(allowed_advisories(raw))
        /\ advisories' = allowed_advisories(raw)
    /\ \E infos \in RpmInfoAnswers :
        /\ ~find_build_srpm_name(infos).raised
        /\ rpm_infos' = Answered(infos)
    /\ \E S \in FoundSets : \E par \in ParentOf(Images) :
        /\ \A n \in Images : par[n] # n
        /\ Acyclic(Images, par)
        /\ inventory' = par
        /\ batches' = find_images_to_rebuild(S, par)
    /\ pc' = after_find(batches')
    /\ returned' = IF after_find(batches') = "done"
                   THEN Returned(handle_result(repo_url)) ELSE returned
    /\ UNCHANGED <<builds, db, new_compose, state, statuses, polls, repo_url,
                   errors, readerView,
                   parserVars, consumerVars, storeVars, ruleVars, findVars, mbsVars>>

----------------------------------------------------------------------------
(* BrewSignRPMHandler._record_batches *)

\* image["parent"]["brew"]["build"] if image["parent"] else None
parent_name_of(image) == image.parent

\* The build recorded last taken for the build of a parent that is not in builds.
dep_on_or_latest(blds, parent_name) ==
    IF parent_name \in DOMAIN blds THEN blds[parent_name]
    ELSE IF DOMAIN blds = {} THEN NULL
    ELSE CHOOSE id \in {blds[n] : n \in DOMAIN blds} :
             \A n \in DOMAIN blds : blds[n] <= id

\* builds[parent_name] if parent_name in builds else None
dep_on_of(blds, parent_name) ==
    IF parent_name \in DOMAIN blds THEN blds[parent_name] ELSE NULL

\* The build recorded as already being built.
recorded_build_started(rows, blds, image) ==
    [record_build(rows, EventId, image.name, IMAGE, 0,
                  dep_on_of(blds, parent_name_of(image)), "BUILD")
        EXCEPT !.build_args = [repository |-> image.repository,
                               commit |-> image.commit,
                               parent |-> parent_name_of(image)]]

\* The row one pass of the inner loop commits for `image`.
recorded_build(rows, blds, image) ==
    [record_build(rows, EventId, image.name, IMAGE, 0,
                  dep_on_of(blds, parent_name_of(image)), PLANNED)
        EXCEPT !.build_args = [repository |-> image.repository,
                               commit |-> image.commit,
                               parent |-> parent_name_of(image)]]

\* builds[name] = build
with_build(blds, name, id) ==
    [n \in DOMAIN blds \cup {name} |-> IF n = name THEN id ELSE blds[n]]

\* The images of the first batch only taken for those to record.
todo_of_first_batch ==
    SubSeq(Flatten(batches), Len(RowsOf(db, EventId)) + 1,
           IF batches = <<>> THEN 0 ELSE Len(batches[1]))

\* The images of the plan _record_batches has still to record.
todo == SubSeq(Flatten(batches), Len(RowsOf(db, EventId)) + 1, Len(Flatten(batches)))

\* One pass of the inner loop: record_build, build_args, db.session.commit().
RecordImage ==
    /\ pc = "record"
    /\ todo # <<>>
    /\ LET build == recorded_build(db, builds, Head(todo))
       IN  /\ db' = Append(db, build)
           /\ builds' = with_build(builds, Head(todo).name, build.id)
    /\ pc' = IF Len(todo) = 1 THEN "prepare" ELSE "record"
    /\ UNCHANGED <<advisories, batches, new_compose, state, statuses, polls,
                   repo_url, returned, errors, readerView,
                   inventory, rpm_infos, parserVars, consumerVars, storeVars, ruleVars,
                   findVars, mbsVars>>

----------------------------------------------------------------------------
(* BrewSignRPMHandler._prepare_yum_repo *)

\* A log.error call: its format string and its arguments.
LogLine(fmt, args) == [msg |-> fmt, args |-> args]

NotLatestLine == LogLine("Build %s is not the latest build in its all tags.", <<"nvr">>)

FailedLine(compose_url) == LogLine("ODCS fails to generate compose: %s", <<compose_url>>)

ConsultLine == LogLine("Please consult ODCS to see what is wrong with it", <<>>)

UnexpectedLine(st) == LogLine("Got unexpected compose state {0} from ODCS.", <<ToString(st)>>)

\* _get_compose_source: the build has no tag ending in -candidate; [...][0] raises.
PrepareNoCandidateTag ==
    /\ pc = "prepare"
    /\ pc' = "raised"
    /\ UNCHANGED <<advisories, batches, builds, db, new_compose, state, statuses,
                   polls, repo_url, returned, errors, readerView,
                   inventory, rpm_infos, parserVars, consumerVars, storeVars, ruleVars,
                   findVars, mbsVars>>

\* compose_source is None: the build is not the latest of its tag; returns None.
PrepareNotLatest ==
    /\ pc = "prepare"
    /\ errors' = Append(errors, NotLatestLine)
    /\ repo_url' = None
    /\ returned' = Returned(handle_result(repo_url'))
    /\ pc' = "done"
    /\ UNCHANGED <<advisories, batches, builds, db, new_compose, state, statuses,
                   polls, readerView,
                   inventory, rpm_infos, parserVars, consumerVars, storeVars, ruleVars,
                   findVars, mbsVars>>

\* odcs.new_compose(compose_source, 'tag', packages=packages)
PrepareNewCompose ==
    /\ pc = "prepare"
    /\ \E id \in ComposeIds : new_compose' = NewComposeAnswer(id)
    /\ pc' = "poll"
    /\ UNCHANGED <<advisories, batches, builds, db, state, statuses, polls,
                   repo_url, returned, errors, readerView,
                   inventory, rpm_infos, parserVars, consumerVars, storeVars, ruleVars,
                   findVars, mbsVars>>

\* A failed compose taken for one more reason to wait.
branch_of_waits_on_failed(st) ==
    IF st = 0 THEN "wait"
    ELSE IF st = 1 THEN "wait"
    ELSE IF st = 4 THEN "wait"
    ELSE IF st = 2 THEN "break"
    ELSE "unexpected"

\* A state the handler does not know taken for one more reason to wait.
branch_of_waits_on_unknown(st) ==
    IF st = 4 THEN "failed"
    ELSE IF st = 2 THEN "break"
    ELSE "wait"

\* The loop not left when the compose is done.
branch_of_no_break(st) ==
    IF st = 0 THEN "wait"
    ELSE IF st = 1 THEN "wait"
    ELSE IF st = 4 THEN "failed"
    ELSE IF st = 2 THEN "wait"
    ELSE "unexpected"

\* What the if/elif chain of the wait loop does with a fetched compose state.
branch_of(st) ==
    IF st = 0 THEN "wait"
    ELSE IF st = 1 THEN "wait"
    ELSE IF st = 4 THEN "failed"
    ELSE IF st = 2 THEN "break"
    ELSE "unexpected"

\* The failed compose logged without its URL.
error_lines_no_url(branch, st, compose_url) ==
    IF branch = "failed" THEN <<FailedLine(None), ConsultLine>>
    ELSE IF branch = "unexpected" THEN <<UnexpectedLine(st)>>
    ELSE <<>>

\* The log.error lines the branch writes.
error_lines(branch, st, compose_url) ==
    IF branch = "failed" THEN <<FailedLine(compose_url), ConsultLine>>
    ELSE IF branch = "unexpected" THEN <<UnexpectedLine(st)>>
    ELSE <<>>

\* The compose's own URL returned for its result repository.
returned_compose_url(branch, compose) ==
    IF branch = "break" THEN compose_url_of(compose.id) ELSE None

\* What _prepare_yum_repo returns when the branch leaves the loop.
returned_value(branch, compose) ==
    IF branch = "break" THEN compose.result_repo ELSE None

\* One pass of the wait loop: time.sleep(1), odcs.get_compose, the if/elif chain;
\* when the loop is left, the return of _prepare_yum_repo and of handle.
Poll ==
    /\ pc = "poll"
    /\ \E st \in ComposeStates :
        LET branch == branch_of(st)
            compose_url == compose_url_of(new_compose.id)
        IN  /\ state' = st
            /\ IF polls < MaxPolls
               THEN statuses' = Append(statuses, st) /\ polls' = polls + 1
               ELSE statuses' = statuses /\ polls' = MaxPolls + 1
            /\ errors' = errors \o error_lines(branch, st, compose_url)
            /\ IF branch = "wait"
               THEN pc' = "poll" /\ repo_url' = repo_url /\ returned' = returned
               ELSE /\ pc' = "done"
                    /\ repo_url' = returned_value(branch, new_compose)
                    /\ returned' = Returned(handle_result(repo_url'))
    /\ UNCHANGED <<advisories, batches, builds, db, new_compose, readerView,
                   inventory, rpm_infos, parserVars, consumerVars, storeVars, ruleVars,
                   findVars, mbsVars>>

----------------------------------------------------------------------------
(* A concurrent reader of the table. *)

\* The ids of the event's committed builds.
committed_ids(rows, ev) == {RowsOf(rows, ev)[i].id : i \in 1..Len(RowsOf(rows, ev))}

Read ==
    /\ readerView' = committed_ids(db, EventId)
    /\ readerView' # readerView
    /\ UNCHANGED <<pc, advisories, batches, builds, db, new_compose, state, statuses,
                   polls, repo_url, returned, errors,
                   inventory, rpm_infos, parserVars, consumerVars, storeVars, ruleVars,
                   findVars, mbsVars>>

----------------------------------------------------------------------------
(* The handler's specification. *)

Init ==
    /\ pc = "handle"
    /\ advisories = <<>>
    /\ batches = <<>>
    /\ inventory = NoInventory
    /\ rpm_infos = NoCall
    /\ builds = EmptyDict
    /\ db = <<EarlierRow>>
    /\ new_compose = NoCompose
    /\ state = NoState
    /\ statuses = <<>>
    /\ polls = 0
    /\ repo_url = Unset
    /\ returned = NotReturned
    /\ errors = <<>>
    /\ readerView = {}
    /\ parsers = <<>>
    /\ topic = <<>>
    /\ msg = <<>>
    /\ event = NoEvent
    /\ registration = NoRegistration
    /\ parsed_topics = NoCall
    /\ incoming = <<>>
    /\ dispatched = <<>>
    /\ calls = <<>>
    /\ passed = 0
    /\ advances = <<>>
    /\ matched = NoCall
    /\ decided = NoCall
    /\ lookup = NoCall
    /\ asked = NoCall
    /\ rebuilds = NoCall

Handle ==
    \/ FindNoAdvisories
    \/ FindNotSigned
    \/ FindNoSrpm
    \/ FindImages
    \/ RecordImage
    \/ PrepareNoCandidateTag
    \/ PrepareNotLatest
    \/ PrepareNewCompose
    \/ Poll

Next == Handle \/ Read

Spec == Init /\ [][Next]_vars

\* The handler's thread keeps running while it has a step to take.
FairSpec == Spec /\ WF_vars(Handle)

----------------------------------------------------------------------------
(* BaseEvent: the parser registry and from_fedmsg. *)

\* conf.messaging_topic_prefix and conf.git_base_url.
TopicPrefix == "org.fedoraproject.prod"

git_base_url == "git://pkgs.fedoraproject.org"

\* A topic is the sequence of the pieces it is written from; a suffix a parser
\* declares is one piece, and no other piece ends with it.
Topics ==
    {<<TopicPrefix, ".", "git.receive">>,
     <<TopicPrefix, ".", "mbs.module.state.change">>,
     <<TopicPrefix, ".", "buildsys.tag">>,
     <<"git.receive">>}

\* topic.endswith(s)
endswith(t, s) == Len(t) >= 1 /\ t[Len(t)] = s

\* A dict without keys.
EmptyMsg == [k \in {} |-> None]

Commit(namespace) ==
    [namespace |-> namespace, repo |-> "foo", rev |-> "abc123", branch |-> "master"]

\* A push to the dist-git repository rpms/bash that changed `files`; a file name is
\* the sequence of its stem and its extension.
RpmsCommit(files) ==
    [namespace |-> "rpms", repo |-> "bash", rev |-> "123", branch |-> "master",
     files |-> files]

\* The message bodies: without msg, with an empty msg, without commit, with an
\* empty commit, with a commit in namespace modules or rpms, with a commit that
\* names no namespace, with a push to rpms/bash that changed bash.spec or test.c.
Messages ==
    {[msg_id |-> "2017-1"],
     [msg_id |-> "2017-1", msg |-> EmptyMsg],
     [msg_id |-> "2017-1", msg |-> [agent |-> "dev"]],
     [msg_id |-> "2017-1", msg |-> [commit |-> EmptyMsg]],
     [msg_id |-> "2017-1", msg |-> [commit |-> Commit("modules")]],
     [msg |-> [commit |-> Commit("modules")]],
     [msg_id |-> "2017-1", msg |-> [commit |-> Commit("rpms")]],
     [msg_id |-> "2017-1", msg |-> [commit |-> [repo |-> "foo", rev |-> "abc123"]]],
     [msg_id |-> "2017-1", msg |-> [commit |-> RpmsCommit({<<"bash", ".spec">>})]],
     [msg_id |-> "2017-1", msg |-> [commit |-> RpmsCommit({<<"test", ".c">>})]]}

\* d.get(k) where a dict is expected: None and {} are both falsy, and EmptyMsg
\* stands for either.
get_dict(d, k) == IF k \in DOMAIN d THEN d[k] ELSE EmptyMsg

\* d.get(k) where a string is expected.
get_str(d, k) == IF k \in DOMAIN d THEN d[k] ELSE None

\* `not d` for a dict or None.
falsy(d) == DOMAIN d = {}

\* ModuleMetadataUpdated(msg_id, scm_url, branch)
ModuleMetadataUpdated(msg_id, scm_url, branch) ==
    [kind |-> "ModuleMetadataUpdated", msg_id |-> msg_id, scm_url |-> scm_url,
     branch |-> branch]

\* TestingEvent(msg_id)
TestingEvent(msg_id) == [kind |-> "TestingEvent", msg_id |-> msg_id]

\* The parser classes that may be registered, by their `name`.
ParserNames == {"GitReceiveParser", "MBSModuleParser", "TestingParser"}

\* parser.topic_suffixes
topic_suffixes(p) ==
    IF p = "GitReceiveParser" THEN <<"git.receive">>
    ELSE IF p = "MBSModuleParser" THEN <<"mbs.module.state.change">>
    ELSE <<"git.receive">>

\* parser.can_parse(topic, msg)
can_parse(p, t, m) == \E i \in DOMAIN topic_suffixes(p) : endswith(t, topic_suffixes(p)[i])

\* A parse that makes an event of a commit in any namespace.
git_receive_parse_any_namespace(t, m) ==
    LET commit == get_dict(get_dict(m, "msg"), "commit")
        namespace == get_str(commit, "namespace")
        scm_url == git_base_url \o "/" \o namespace \o "/" \o get_str(commit, "repo")
                       \o ".git?#" \o get_str(commit, "rev")
    IN  IF falsy(commit) THEN NoEvent
        ELSE ModuleMetadataUpdated(get_str(m, "msg_id"), scm_url, get_str(commit, "branch"))

\* GitReceiveParser.parse(topic, msg)
git_receive_parse(t, m) ==
    LET msg_id == get_str(m, "msg_id")
        msg_inner_msg == get_dict(m, "msg")
        commit == get_dict(msg_inner_msg, "commit")
        namespace == get_str(commit, "namespace")
        rev == get_str(commit, "rev")
        repo == get_str(commit, "repo")
        branch == get_str(commit, "branch")
        scm_url == git_base_url \o "/" \o namespace \o "/" \o repo \o ".git?#" \o rev
    IN  IF falsy(msg_inner_msg) THEN NoEvent
        ELSE IF falsy(commit) THEN NoEvent
        ELSE IF namespace = "modules"
             THEN ModuleMetadataUpdated(msg_id, scm_url, branch)
        ELSE NoEvent

\* A parser of module build messages: this model gives it no message it turns into
\* an event.
mbs_module_parse(t, m) == NoEvent

\* A parser that turns every message of its topics into a TestingEvent.
testing_parse(t, m) == TestingEvent(get_str(m, "msg_id"))

\* parser.parse(topic, msg)
parse(p, t, m) ==
    IF p = "GitReceiveParser" THEN git_receive_parse(t, m)
    ELSE IF p = "MBSModuleParser" THEN mbs_module_parse(t, m)
    ELSE testing_parse(t, m)

\* A from_fedmsg that gives the message to the first parser without asking can_parse.
from_fedmsg_without_can_parse(ps, t, m) ==
    IF ps = <<>> THEN NoEvent ELSE parse(Head(ps), t, m)

RECURSIVE from_fedmsg(_, _, _)
\* BaseEvent.from_fedmsg(topic, msg) over the registered parsers `ps`.
from_fedmsg(ps, t, m) ==
    IF ps = <<>> THEN NoEvent
    ELSE IF ~can_parse(Head(ps), t, m) THEN from_fedmsg(Tail(ps), t, m)
    ELSE parse(Head(ps), t, m)

\* The sequence with p put at place k.
inserted(ps, k, p) == SubSeq(ps, 1, k - 1) \o <<p>> \o SubSeq(ps, k, Len(ps))

\* A registry whose overwritten key moves to the end.
registered_moved_last(ps, p) ==
    {Append(SelectSeq(ps, LAMBDA q : q # p), p)}

\* BaseEvent._parsers[parser_class.name] = parser_class() on a plain dict: the
\* dicts the assignment can leave. A key already there keeps its place. A new key
\* comes last where the interpreter's dict keeps insertion order, and at the place
\* its hash gives it where it does not (the module runs on both: events.py falls
\* back to funcsigs where inspect has no signature).
registered(ps, p) ==
    IF \E i \in DOMAIN ps : ps[i] = p THEN {ps}
    ELSE {inserted(ps, k, p) : k \in 1..(Len(ps) + 1)}

\* BaseEvent.register_parser(parser_class)
register_parser(p) ==
    /\ parsers' \in registered(parsers, p)
    /\ registration' = [parser_class |-> p, before |-> parsers]
    /\ UNCHANGED <<topic, msg, event, parsed_topics,
                   handlerVars, consumerVars, storeVars, ruleVars, findVars, mbsVars>>

RegisterParser == \E p \in ParserNames : register_parser(p)

\* event = BaseEvent.from_fedmsg(topic, msg)
Classify(t, m) ==
    /\ topic' = t
    /\ msg' = m
    /\ event' = from_fedmsg(parsers, t, m)
    /\ UNCHANGED <<parsers, registration, parsed_topics,
                   handlerVars, consumerVars, storeVars, ruleVars, findVars, mbsVars>>

\* conf.messaging_topic_prefix as the configurations set it.
TopicPrefixConfigs ==
    {<<TopicPrefix>>, <<"org.fedoraproject.dev", "org.fedoraproject.stg">>}

\* pref.rstrip('.'): a prefix written with a dot at its end loses it.
rstrip_dots(pref) ==
    IF pref = "org.fedoraproject.prod." THEN "org.fedoraproject.prod" ELSE pref

RECURSIVE suffixes_of(_)
\* topic_suffixes after the loop over the registered parsers.
suffixes_of(ps) ==
    IF ps = <<>> THEN <<>> ELSE topic_suffixes(Head(ps)) \o suffixes_of(Tail(ps))

\* BaseEvent.get_parsed_topics(): '{}.{}'.format(pref.rstrip('.'), cat) for every
\* pair of itertools.product(conf.messaging_topic_prefix, topic_suffixes).
get_parsed_topics(ps, prefixes) ==
    LET cats == suffixes_of(ps)
        n == Len(cats)
    IN  [k \in 1..(Len(prefixes) * n) |->
            <<rstrip_dots(prefixes[((k - 1) \div n) + 1]), ".", cats[((k - 1) % n) + 1]>>]

\* topics = BaseEvent.get_parsed_topics()
GetParsedTopics ==
    /\ \E prefixes \in TopicPrefixConfigs :
        parsed_topics' = [called |-> TRUE, parsers |-> parsers, prefixes |-> prefixes,
                          result |-> get_parsed_topics(parsers, prefixes)]
    /\ UNCHANGED <<parsers, topic, msg, event, registration,
                   handlerVars, consumerVars, storeVars, ruleVars, findVars, mbsVars>>

FromFedmsg == \E t \in Topics : \E m \in Messages : Classify(t, m)

NextParsers == RegisterParser \/ FromFedmsg \/ GetParsedTopics

SpecParsers == Init /\ [][NextParsers]_vars

----------------------------------------------------------------------------
(* FreshmakerConsumer: consume, the dispatch to the handlers, the loop-back. *)

\* The configured handlers, in their configured order: one that records every
\* event, the signed-RPM handler, and one that rebuilds on a change of a module.
Handlers == <<"RecordInDatabase", "BrewSignRPMHandler", "TriggerRebuild">>

\* handler.can_handle(event)
can_handle(h, e) ==
    IF h = "RecordInDatabase" THEN e.kind # "None"
    ELSE IF h = "BrewSignRPMHandler" THEN e.kind = "BrewSignRPMEvent"
    ELSE e.kind \in {"ModuleMetadataUpdated", "BrewSignRPMEvent"}

\* What a handle call may do with the event: raise, or return no event, one event
\* or two events of further work.
Outcomes(h, e) ==
    LET first == TestingEvent(h \o " handled " \o e.msg_id)
        second == TestingEvent(h \o " handled again " \o e.msg_id)
    IN  {[raised |-> TRUE, returned |-> <<>>],
         [raised |-> FALSE, returned |-> <<>>],
         [raised |-> FALSE, returned |-> <<first>>],
         [raised |-> FALSE, returned |-> <<first, second>>]}

\* What the handlers that can handle the event do with it, each for itself.
HandleAnswers(e) ==
    LET able == {Handlers[i] : i \in {j \in DOMAIN Handlers : can_handle(Handlers[j], e)}}
    IN  [able -> UNION {Outcomes(h, e) : h \in able}]

\* One handle call of the dispatch numbered d, as the consumer sees and logs it.
handle_call(d, h, e, outcome) ==
    [dispatch |-> d, handler |-> h, event |-> e, raised |-> outcome.raised,
     further_work |-> IF outcome.raised THEN <<>> ELSE outcome.returned]

RECURSIVE process_first_only(_, _, _, _)
\* The dispatch ended at the first handler that can handle the event.
process_first_only(hs, d, e, out) ==
    IF hs = <<>> THEN <<>>
    ELSE IF ~can_handle(Head(hs), e) THEN process_first_only(Tail(hs), d, e, out)
    ELSE <<handle_call(d, Head(hs), e, out[Head(hs)])>>

RECURSIVE process_event(_, _, _, _)
\* The handle calls of one dispatch: every handler of hs that can handle the
\* event is called, in order; a handler that raises is logged and passed over.
process_event(hs, d, e, out) ==
    IF hs = <<>> THEN <<>>
    ELSE IF ~can_handle(Head(hs), e) THEN process_event(Tail(hs), d, e, out)
    ELSE <<handle_call(d, Head(hs), e, out[Head(hs)])>>
             \o process_event(Tail(hs), d, e, out)

RECURSIVE further_work_of(_)
\* The events the calls returned, in the order they were returned.
further_work_of(cs) ==
    IF cs = <<>> THEN <<>> ELSE Head(cs).further_work \o further_work_of(Tail(cs))

\* Only the first event a handler returned is put on the queue.
enqueued_first_only(queue, further_work) ==
    IF further_work = <<>> THEN queue ELSE Append(queue, Head(further_work))

\* for event in further_work: self.incoming.put(event)
enqueued(queue, further_work) == queue \o further_work

\* The dispatch of the event e, `queue` being the events that stay on the queue.
Dispatch(e, from_queue, queue) ==
    /\ passed < MaxConsumed
    /\ \E out \in HandleAnswers(e) :
        /\ \A h \in DOMAIN out : out[h] \in Outcomes(h, e)
        /\ LET new == process_event(Handlers, Len(dispatched) + 1, e, out)
           IN  /\ calls' = calls \o new
               /\ incoming' = enqueued(queue, further_work_of(new))
    /\ dispatched' = Append(dispatched, [event |-> e, from_queue |-> from_queue])
    /\ passed' = passed + 1

\* consumer.consume(message) for a message of the bus: it is turned into an event
\* by from_fedmsg and dropped when it is none.
ConsumeMessage ==
    /\ \E e \in {from_fedmsg(parsers, t, m) : t \in Topics, m \in Messages} :
        /\ e # NoEvent
        /\ Dispatch(e, FALSE, incoming)
    /\ UNCHANGED <<handlerVars, parserVars, storeVars, ruleVars, findVars, mbsVars>>

\* consumer.consume(message) for an event taken from the consumer's own queue.
ConsumeEvent ==
    /\ incoming # <<>>
    /\ Dispatch(Head(incoming), TRUE, Tail(incoming))
    /\ UNCHANGED <<handlerVars, parserVars, storeVars, ruleVars, findVars, mbsVars>>

NextConsumer == RegisterParser \/ ConsumeMessage \/ ConsumeEvent

SpecConsumer == Init /\ [][NextConsumer]_vars

----------------------------------------------------------------------------
(* ArtifactBuildStore: the states of a build and advance. *)

BUILDING == "BUILDING"

DONE == "DONE"

FAILED == "FAILED"

BuildStates == {PLANNED, BUILDING, DONE, FAILED}

\* Every request is taken for a legal one.
is_any_edge(from, to) == TRUE

\* The edges along which advance moves a build.
is_edge(from, to) ==
    \/ from = PLANNED /\ to = BUILDING
    \/ from = BUILDING /\ to = DONE
    \/ from = BUILDING /\ to = FAILED
    \/ from = PLANNED /\ to = FAILED

\* The rows after advance(build, new_state) for the build with the id `id`.
advanced(rows, id, new_state) ==
    [i \in DOMAIN rows |->
        IF rows[i].id = id /\ is_edge(rows[i].state, new_state)
        THEN [rows[i] EXCEPT !.state = new_state]
        ELSE rows[i]]

\* record_build as _record_batches calls it, for one more image of the event.
RecordBuild ==
    /\ Len(db) < MaxBuilds
    /\ \E n \in Images :
        db' = Append(db, record_build(db, EventId, n, IMAGE, 0, NULL, PLANNED))
    /\ UNCHANGED <<pc, advisories, batches, inventory, rpm_infos, builds, new_compose, state,
                   statuses, polls, repo_url, returned, errors, readerView, advances,
                   parserVars, consumerVars, ruleVars, findVars, mbsVars>>

\* advance(build, new_state): the state is changed along an edge; any other
\* request fails with an invalid-transition error and changes nothing.
Advance ==
    /\ Len(advances) < MaxAdvances
    /\ \E i \in DOMAIN db : \E new_state \in BuildStates :
        /\ db' = advanced(db, db[i].id, new_state)
        /\ advances' = Append(advances,
                              [build |-> db[i].id, from |-> db[i].state,
                               to |-> new_state,
                               invalid_transition |-> ~is_edge(db[i].state, new_state)])
    /\ UNCHANGED <<pc, advisories, batches, inventory, rpm_infos, builds, new_compose, state,
                   statuses, polls, repo_url, returned, errors, readerView,
                   parserVars, consumerVars, ruleVars, findVars, mbsVars>>

NextStore == RecordBuild \/ Advance

SpecStore == Init /\ [][NextStore]_vars

----------------------------------------------------------------------------
(* RuleMatcher: the rules of HANDLER_BUILD_WHITELIST / HANDLER_BUILD_BLACKLIST. *)

\* A value of an artifact attribute or of a rule: a string, a bool or a list of
\* strings.
Str(s) == [type |-> "str", s |-> s]

Bool(b) == [type |-> "bool", b |-> b]

List(l) == [type |-> "list", l |-> l]

\* The attributes an artifact may have, and the values each may take.
AttributeValues ==
    [advisory_name |-> {Str("RHSA-2020-0001"), Str("RHBA-2020-0002")},
     severity |-> {Str("critical"), Str("low")},
     has_hightouch_bugs |-> {Bool(TRUE), Bool(FALSE)}]

\* The attribute maps: every attribute is there with one of its values or absent.
Attributes ==
    UNION {{f \in [names -> UNION {AttributeValues[n] : n \in names}] :
                \A n \in names : f[n] \in AttributeValues[n]} :
           names \in SUBSET DOMAIN AttributeValues}

\* A string of a rule matched against an attribute: 'RHSA-.*' matches the names
\* of the RHSA advisories, any other string of this model matches itself.
regex_match(pattern, s) ==
    IF pattern = "RHSA-.*" THEN s \in {"RHSA-2020-0001"}
    ELSE pattern = s

\* {attr: value}, all_(rule_1, rule_2, ...) and any_(rule_1, rule_2, ...)
leaf(attr, value) == [op |-> "leaf", attr |-> attr, value |-> value]

all_(rules) == [op |-> "all", rules |-> rules]

any_(rules) == [op |-> "any", rules |-> rules]

\* The rules of one attribute each.
Leaves ==
    {leaf("advisory_name", Str("RHSA-.*")),
     leaf("severity", List(<<"critical", "important">>)),
     leaf("severity", List(<<>>)),
     leaf("has_hightouch_bugs", Bool(TRUE))}

\* The groups of up to MaxChildren rules of S.
Groups(S) ==
    LET children == UNION {[1..n -> S] : n \in 0..MaxChildren}
    IN  {all_(c) : c \in children} \cup {any_(c) : c \in children}

\* The rules evaluated: the leaves, the groups of leaves, and a leaf grouped with
\* a group of leaves as in the example of the configuration.
Rules ==
    Leaves \cup Groups(Leaves)
        \cup {all_(<<l, g>>) : l \in Leaves, g \in Groups(Leaves)}
        \cup {any_(<<l, g>>) : l \in Leaves, g \in Groups(Leaves)}

\* A leaf: a missing attribute does not match; a bool matches on equality, a string
\* when it matches the attribute, a list when any of its strings does.
leaf_matches(rule, attributes) ==
    IF rule.attr \notin DOMAIN attributes THEN FALSE
    ELSE LET v == attributes[rule.attr]
             target == rule.value
         IN  IF target.type = "bool" THEN v.type = "bool" /\ v.b = target.b
             ELSE IF target.type = "str"
                  THEN v.type = "str" /\ regex_match(target.s, v.s)
             ELSE v.type = "str"
                      /\ \E i \in DOMAIN target.l : regex_match(target.l[i], v.s)

RECURSIVE matches_any_is_all(_, _)
\* any_ evaluated as all_ is.
matches_any_is_all(rule, attributes) ==
    IF rule.op = "leaf" THEN leaf_matches(rule, attributes)
    ELSE \A i \in DOMAIN rule.rules : matches_any_is_all(rule.rules[i], attributes)

RECURSIVE matches(_, _)
\* matches(rule, attributes)
matches(rule, attributes) ==
    IF rule.op = "leaf" THEN leaf_matches(rule, attributes)
    ELSE IF rule.op = "all"
         THEN \A i \in DOMAIN rule.rules : matches(rule.rules[i], attributes)
    ELSE \E i \in DOMAIN rule.rules : matches(rule.rules[i], attributes)

\* The keys of the two tables of this model, and the rules they may hold.
PolicyKeys == {<<"BrewSignRPMHandler", "image">>, <<"global", "image">>}

PolicyRules ==
    {leaf("advisory_name", Str("RHSA-.*")),
     leaf("severity", List(<<"critical", "important">>)),
     all_(<<>>)}

PolicyTables == UNION {[keys -> PolicyRules] : keys \in SUBSET PolicyKeys}

\* The entry of a table for the handler and the type: the handler's own, else the
\* one of "global"; has_entry tells whether there is any.
has_entry(table, handler_name, artifact_type) ==
    \/ <<handler_name, artifact_type>> \in DOMAIN table
    \/ <<"global", artifact_type>> \in DOMAIN table

entry_of(table, handler_name, artifact_type) ==
    IF <<handler_name, artifact_type>> \in DOMAIN table
    THEN table[<<handler_name, artifact_type>>]
    ELSE table[<<"global", artifact_type>>]

\* An artifact with no whitelist entry is denied.
is_allowed_by_whitelist_only(whitelist, blacklist, handler_name, artifact_type, attributes) ==
    /\ has_entry(whitelist, handler_name, artifact_type)
    /\ matches(entry_of(whitelist, handler_name, artifact_type), attributes)
    /\ ~(/\ has_entry(blacklist, handler_name, artifact_type)
         /\ matches(entry_of(blacklist, handler_name, artifact_type), attributes))

\* is_allowed(handler_name, artifact_type, attributes) with the two tables.
is_allowed(whitelist, blacklist, handler_name, artifact_type, attributes) ==
    /\ \/ ~has_entry(whitelist, handler_name, artifact_type)
       \/ matches(entry_of(whitelist, handler_name, artifact_type), attributes)
    /\ ~(/\ has_entry(blacklist, handler_name, artifact_type)
         /\ matches(entry_of(blacklist, handler_name, artifact_type), attributes))

\* The evaluation of one rule against one attribute map.
Matches ==
    /\ matched = NoCall /\ decided = NoCall
    /\ \E rule \in Rules : \E attributes \in Attributes :
        matched' = [called |-> TRUE, rule |-> rule, attributes |-> attributes,
                    result |-> matches(rule, attributes)]
    /\ UNCHANGED <<decided, handlerVars, parserVars, consumerVars, storeVars, findVars, mbsVars>>

\* One is_allowed call of a handler.
IsAllowed ==
    /\ matched = NoCall /\ decided = NoCall
    /\ \E whitelist \in PolicyTables : \E blacklist \in PolicyTables :
       \E artifact_type \in {"image", "module"} : \E attributes \in Attributes :
        decided' = [called |-> TRUE, whitelist |-> whitelist, blacklist |-> blacklist,
                    handler_name |-> "BrewSignRPMHandler",
                    artifact_type |-> artifact_type, attributes |-> attributes,
                    result |-> is_allowed(whitelist, blacklist, "BrewSignRPMHandler",
                                          artifact_type, attributes)]
    /\ UNCHANGED <<matched, handlerVars, parserVars, consumerVars, storeVars, findVars, mbsVars>>

NextRules == Matches \/ IsAllowed

SpecRules == Init /\ [][NextRules]_vars

----------------------------------------------------------------------------
(* BrewSignRPMHandler._find_images_to_rebuild: the lookups it makes. *)

\* The Pulp repository ids, numbered in their sorted order.
PulpRepoIds == 1..MaxRepoIds

\* errata.get_pulp_repository_ids(advisory.errata_id): up to two ids.
RepoIdLists == UNION {[1..n -> PulpRepoIds] : n \in 0..2}

\* The advisories of errata.advisories_from_event, each with its errata_id.
numbered(raw) ==
    [i \in 1..Len(raw) |->
        [errata_id |-> i, allowed |-> raw[i].allowed, signed |-> raw[i].signed]]

\* The errata_ids errata.builds_signed is called with: all(...) over a generator
\* stops at the first advisory that is not signed.
builds_signed_calls(advs) ==
    LET unsigned == {i \in DOMAIN advs : ~advs[i].signed}
        last == IF unsigned = {} THEN Len(advs)
                ELSE CHOOSE i \in unsigned : \A j \in unsigned : i <= j
    IN  [i \in 1..last |-> advs[i].errata_id]

RECURSIVE chain(_)
\* chain(*lists)
chain(lists) == IF lists = <<>> THEN <<>> ELSE Head(lists) \o chain(Tail(lists))

\* list(set(ids)): every id once, in the order the set yields them, which the code
\* does not fix.
list_of_set(ids) ==
    LET S == {ids[i] : i \in DOMAIN ids}
    IN  {l \in [1..Cardinality(S) -> S] : \A i, j \in DOMAIN l : l[i] = l[j] => i = j}

\* The record of a call that returned [] before any lookup after `signed_asked`.
NoLookups(raw, signed_asked) ==
    [called |-> TRUE, advisories |-> raw, signed_asked |-> signed_asked,
     pulp_answers |-> <<>>, pulp_repo_ids |-> <<>>, content_sets_asked |-> FALSE,
     lightblue_asked |-> FALSE, raised |-> FALSE, batches |-> <<>>]

\* One call of _find_images_to_rebuild(event), with the answers of Errata Tool,
\* allow_build, Pulp, Koji and LightBlue.
FindImagesToRebuild ==
    /\ lookup = NoCall
    /\ \E answer \in AdvisoryAnswers :
        LET raw == numbered(answer)
            advs == allowed_advisories(raw)
        IN  IF advs = <<>> THEN lookup' = NoLookups(raw, <<>>)
            ELSE IF ~all_builds_signed(advs)
            THEN lookup' = NoLookups(raw, builds_signed_calls(advs))
            ELSE \E ids \in [DOMAIN advs -> RepoIdLists] :
                 \E pulp_repo_ids \in list_of_set(chain(ids)) :
                 \E infos \in RpmInfoAnswers :
                 \E S \in FoundSets :
                    LET srpm_found == ~find_build_srpm_name(infos).raised IN
                    lookup' =
                        [called |-> TRUE, advisories |-> raw,
                         signed_asked |-> builds_signed_calls(advs),
                         pulp_answers |-> ids, pulp_repo_ids |-> pulp_repo_ids,
                         content_sets_asked |-> TRUE,
                         lightblue_asked |-> srpm_found, raised |-> ~srpm_found,
                         batches |-> IF srpm_found
                                     THEN find_images_to_rebuild(S, NoInventory)
                                     ELSE <<>>]
    /\ UNCHANGED <<handlerVars, parserVars, consumerVars, storeVars, ruleVars, mbsVars>>

NextFind == FindImagesToRebuild

SpecFind == Init /\ [][NextFind]_vars

----------------------------------------------------------------------------
(* The MBS handler: can_handle and handle_module_built. *)

\* ModuleBuilt(msg_id, module_build_id, module_build_state, name, stream)
ModuleBuilt(msg_id, module_build_id, module_build_state, name, stream) ==
    [kind |-> "ModuleBuilt", msg_id |-> msg_id, module_build_id |-> module_build_id,
     module_build_state |-> module_build_state, module_name |-> name,
     module_stream |-> stream]

\* The states of a module build.
ModuleBuildStates == {"init", "wait", "build", "done", "failed", "ready"}

\* The events of the module-built messages of testmodule, master.
ModuleBuiltEvents ==
    {ModuleBuilt("2017-1", 1, s, "testmodule", "master") : s \in ModuleBuildStates}

\* A can_handle that takes a done module build too.
mbs_can_handle_done_too(e) ==
    \/ e.kind = "ModuleBuilt" /\ e.module_build_state \in {"ready", "done"}
    \/ e.kind = "RPMSpecUpdated"

\* MBS.can_handle(event): a module build that is ready, or an updated spec file.
mbs_can_handle(e) ==
    \/ e.kind = "ModuleBuilt" /\ e.module_build_state = "ready"
    \/ e.kind = "RPMSpecUpdated"

\* setUp: register_parser(MBSModuleParser), register_parser(GitReceiveParser).
SetUpRegistries ==
    UNION {registered(ps, "GitReceiveParser") : ps \in registered(<<>>, "MBSModuleParser")}

\* handler.can_handle(event) for a module-built event.
MBSCanHandleEvent ==
    /\ asked = NoCall /\ rebuilds = NoCall
    /\ \E e \in ModuleBuiltEvents :
        asked' = [called |-> TRUE, parsers |-> <<>>, topic |-> <<>>, msg |-> <<>>,
                  event |-> e, result |-> mbs_can_handle(e)]
    /\ UNCHANGED <<rebuilds, handlerVars, parserVars, consumerVars, storeVars, ruleVars,
                   findVars>>

\* event = self._get_event(msg); handler.can_handle(event)
MBSCanHandleMessage ==
    /\ asked = NoCall /\ rebuilds = NoCall
    /\ \E ps \in SetUpRegistries : \E t \in Topics : \E m \in Messages :
        LET e == from_fedmsg(ps, t, m)
        IN  asked' = [called |-> TRUE, parsers |-> ps, topic |-> t, msg |-> m,
                      event |-> e, result |-> mbs_can_handle(e)]
    /\ UNCHANGED <<rebuilds, handlerVars, parserVars, consumerVars, storeVars, ruleVars,
                   findVars>>

\* The modules PDC knows to depend on testmodule, and their releases, numbered
\* oldest first.
ModuleNames == {"testmodule2", "testmodule3"}

ModuleReleases == 1..MaxReleases

\* PDCModuleInfo(name, 'master', release)
PDCModuleInfo(name, release) ==
    [variant_name |-> name, variant_version |-> "master", variant_release |-> release]

\* get_modules(build_dep_name=..., build_dep_stream=...): the releases that
\* build-depend on the module, each once, up to MaxDepending of them.
DependingAnswers ==
    LET infos == {PDCModuleInfo(n, r) : n \in ModuleNames, r \in ModuleReleases}
    IN  UNION {{l \in [1..k -> infos] : \A i, j \in 1..k : l[i] = l[j] => i = j} :
                  k \in 0..MaxDepending}

\* get_modules(variant_name=..., variant_version=...): the releases of every module;
\* those that depend on testmodule are among them.
ReleaseAnswers(depending) ==
    {rel \in [ModuleNames -> SUBSET ModuleReleases] :
        \A i \in DOMAIN depending :
            depending[i].variant_release \in rel[depending[i].variant_name]}

\* The latest release of a module.
latest_release(releases) == CHOOSE r \in releases : \A q \in releases : q <= r

\* Every depending release taken for the latest one.
latest_modules_every_release(depending, rel) == depending

\* pdc.get_latest_modules: the depending releases that are the latest release of
\* their module, in the order PDC returned them.
latest_modules(depending, rel) ==
    SelectSeq(depending,
              LAMBDA mod : mod.variant_release = latest_release(rel[mod.variant_name]))

\* utils.get_commit_hash of the module's repository.
get_commit_hash(name) == "commit-of-" \o name

\* The rebuild_module call for a module: its SCM URL and its branch.
rebuild_module_call(mod) ==
    [scm_url |-> git_base_url \o "/modules/" \o mod.variant_name \o ".git?#"
                     \o get_commit_hash(mod.variant_name),
     branch |-> mod.variant_version]

\* handler.handle_module_built(event) for the module-built event of testmodule.
HandleModuleBuilt ==
    /\ asked = NoCall /\ rebuilds = NoCall
    /\ \E depending \in DependingAnswers : \E rel \in ReleaseAnswers(depending) :
        LET mods == latest_modules(depending, rel)
        IN  rebuilds' = [called |-> TRUE, depending |-> depending, releases |-> rel,
                         calls |-> [i \in 1..Len(mods) |-> rebuild_module_call(mods[i])]]
    /\ UNCHANGED <<asked, handlerVars, parserVars, consumerVars, storeVars, ruleVars,
                   findVars>>

NextMBS == MBSCanHandleEvent \/ MBSCanHandleMessage \/ HandleModuleBuilt

SpecMBS == Init /\ [][NextMBS]_vars

----------------------------------------------------------------------------
(* Claims. *)

RECURSIVE first_event(_, _, _)
\* The event of the first parser of `ps` that can parse the message and makes an
\* event of it; NoEvent when no parser of `ps` does.
first_event(ps, t, m) ==
    IF ps = <<>> THEN NoEvent
    ELSE IF can_parse(Head(ps), t, m) /\ parse(Head(ps), t, m) # NoEvent
         THEN parse(Head(ps), t, m)
    ELSE first_event(Tail(ps), t, m)

\* C1: from_fedmsg takes a parser that can parse the message but whose parse returns
\* None as "no match" and goes on with the parsers registered after it: it returns
\* the event of the first parser that makes one, and None only when none does.
C1_ClassifyGoesOnAfterNone ==
    [][\A t \in Topics : \A m \in Messages :
          Classify(t, m) => event' = first_event(parsers, t, m)]_vars

\* The rows of the event being handled, and the images of its plan.
plan_rows == RowsOf(db, EventId)

plan_images == Flatten(batches)

\* _record_batches has recorded the whole plan.
recorded == pc \notin {"handle", "record"}

\* The index (from 0) of the batch that holds the image named n.
batch_index(n) ==
    CHOOSE b \in 0..(Len(batches) - 1) :
        \E i \in 1..Len(batches[b + 1]) : batches[b + 1][i].name = n

\* C2: the plan of one event is persisted as one atomic unit: a concurrent reader
\* sees no build of the event or all builds of all batches, never a part of them.
C2_ReaderSeesAllOrNothing ==
    \/ readerView = {}
    \/ Cardinality(readerView) = Len(plan_images)

\* C3: a build's depends_on is a build of the same event and of a strictly earlier
\* batch, so it is never of the same batch and the relation has no cycle.
C3_DependsOnEarlierBatch ==
    LET rows == plan_rows
    IN  \A k \in 1..Len(rows) :
            rows[k].dep_on # NULL =>
                \E j \in 1..Len(rows) :
                    /\ rows[j].id = rows[k].dep_on
                    /\ rows[j].event_id = rows[k].event_id
                    /\ rows[j].id < rows[k].id
                    /\ batch_index(rows[j].name) < batch_index(rows[k].name)

C3_Witness ==
    LET rows == plan_rows
    IN  /\ recorded
        /\ \E k \in 1..Len(rows) : rows[k].dep_on # NULL
        /\ \E k \in 1..Len(rows) : \E j \in 1..Len(rows) :
              j # k /\ batch_index(rows[j].name) = batch_index(rows[k].name)

\* C4: the wait loop honours a deadline: also when the compose stays in the states
\* 0 and 1 for ever, _prepare_yum_repo comes to return.
C4_WaitLoopReturns == (pc = "poll") ~> (pc = "done")

\* C5: when an advisory left by the filter has unsigned builds, the plan is empty,
\* no build is recorded and no compose is asked for.
C5_UnsignedAdvisoryEmptiesPlan ==
    (\E i \in DOMAIN advisories : ~advisories[i].signed) =>
        /\ pc = "done"
        /\ batches = <<>>
        /\ plan_rows = <<>>
        /\ db = <<EarlierRow>>
        /\ new_compose = NoCompose
        /\ polls = 0

C5_Witness ==
    /\ pc = "done"
    /\ \E i \in DOMAIN advisories : ~advisories[i].signed
    /\ \E i \in DOMAIN advisories : advisories[i].signed

\* The states the polls answered are 0 or 1 up to the last one.
waited_before_last ==
    \A i \in 1..(Len(statuses) - 1) : statuses[i] \in {0, 1}

\* C6: the wait loop polls on while the fetched state is 0 or 1, and at the first
\* poll that answers 2 _prepare_yum_repo returns the compose's result repository,
\* with no poll after it.
C6_PollsUntilDone ==
    /\ (new_compose # NoCompose /\ state \in {NoState, 0, 1}) => pc = "poll"
    /\ pc = "poll" => \A i \in 1..Len(statuses) : statuses[i] \in {0, 1}
    /\ state = 2 =>
        /\ pc = "done"
        /\ repo_url = ResultRepo(new_compose.id)
        /\ waited_before_last
        /\ polls <= MaxPolls => statuses[Len(statuses)] = 2 /\ polls = Len(statuses)

C6_Witness ==
    /\ state = 2
    /\ pc = "done"
    /\ Len(statuses) >= 3
    /\ statuses[1] = 1
    /\ statuses[2] = 0

\* C7 as claimed: with the states 0, 1, 1, 2 _prepare_yum_repo returns the result
\* repository after the third poll.
C7_ReturnsAfterThirdPoll ==
    statuses = <<0, 1, 1, 2>> =>
        /\ pc = "done"
        /\ repo_url = ResultRepo(new_compose.id)
        /\ polls = 3

\* C7 amended: with the states 0, 1, 1, 2 _prepare_yum_repo returns the result
\* repository after the fourth poll, the one that answers 2.
C7_ReturnsAfterFourthPoll ==
    /\ (statuses = <<0, 1, 1>> /\ polls = 3) => (pc = "poll" /\ repo_url = Unset)
    /\ statuses = <<0, 1, 1, 2>> =>
        /\ pc = "done"
        /\ repo_url = ResultRepo(new_compose.id)
        /\ polls = 4

C7_Witness ==
    /\ statuses = <<0, 1, 1, 2>>
    /\ pc = "done"

expected_row(images, rows, k) ==
    LET image == images[k]
        parents == {j \in 1..(k - 1) : images[j].name = image.parent}
    IN  [id |-> 1 + k,
         name |-> image.name,
         type |-> "IMAGE",
         state |-> "PLANNED",
         event_id |-> EventId,
         dep_on |-> IF parents = {} THEN 0
                    ELSE rows[CHOOSE j \in parents : TRUE].id,
         build_id |-> 0,
         build_args |-> [repository |-> image.repository, commit |-> image.commit,
                         parent |-> image.parent]]

\* C10: one build is recorded for each image of each batch, with state PLANNED,
\* type IMAGE and external build id 0; for the batches [X], [Y] with X the parent
\* of Y these are two PLANNED builds and Y's depends on X's.
C10_OneRowPerImage ==
    LET rows == plan_rows
        images == plan_images
    IN  /\ Len(rows) <= Len(images)
        /\ recorded => Len(rows) = Len(images)
        /\ Len(db) = 1 + Len(rows)
        /\ \A k \in 1..Len(rows) : rows[k] = expected_row(images, rows, k)
        /\ (recorded /\ batches = <<<<Image("X", None)>>, <<Image("Y", "X")>>>>) =>
            /\ Len(rows) = 2
            /\ rows[1].name = "X" /\ rows[1].state = "PLANNED"
            /\ rows[2].name = "Y" /\ rows[2].state = "PLANNED"
            /\ rows[1].dep_on = NULL
            /\ rows[2].dep_on = rows[1].id

C10_Witness ==
    /\ recorded
    /\ batches = <<<<Image("X", None)>>, <<Image("Y", "X")>>>>
    /\ Len(plan_rows) = 2

RECURSIVE nearest_in_plan(_, _, _, _)
\* The nearest ancestor of n, by the inventory's parents `par`, that is named in
\* `names`; None when n has no such ancestor.
nearest_in_plan(par, names, n, fuel) ==
    IF par[n] = None \/ fuel = 0 THEN None
    ELSE IF par[n] \in names THEN par[n]
    ELSE nearest_in_plan(par, names, par[n], fuel - 1)

\* The names of the images of the plan.
plan_names == {plan_images[i].name : i \in 1..Len(plan_images)}

\* C11: an image of the plan whose parent is not in the plan is recorded all the
\* same and depends on its nearest ancestor that is in the plan; when it has no
\* ancestor in the plan, it depends on nothing and is in batch 0.
C11_PromotedToNearestAncestor ==
    LET rows == plan_rows
        names == plan_names
    IN  recorded =>
            \A k \in 1..Len(rows) :
                LET n == rows[k].name
                    anc == nearest_in_plan(inventory, names, n, Cardinality(Images))
                IN  (inventory[n] # None /\ inventory[n] \notin names) =>
                        /\ n \in names
                        /\ IF anc = None
                           THEN rows[k].dep_on = NULL /\ batch_index(n) = 0
                           ELSE \E j \in 1..Len(rows) :
                                    rows[j].name = anc /\ rows[k].dep_on = rows[j].id

\* The events the consumer took from its own queue, oldest first.
taken_from_queue ==
    LET entries == SelectSeq(dispatched, LAMBDA x : x.from_queue)
    IN  [i \in 1..Len(entries) |-> entries[i].event]

\* The handle calls of the dispatch numbered d, and those of the dispatches before it.
calls_of(d) == SelectSeq(calls, LAMBDA c : c.dispatch = d)

calls_before(d) == SelectSeq(calls, LAMBDA c : c.dispatch < d)

\* C12: the events a handler returns are put on the consumer's own queue in the
\* order they were returned and are not dispatched inline: the events returned so
\* far are those taken from the queue since, followed by the queue as it stands,
\* and an event is given to the handlers only by a later consume than the one in
\* which it was returned: an event taken from the queue was returned in a dispatch
\* before, and every handle call of a dispatch is for the event of that dispatch.
C12_FurtherWorkIsEnqueued ==
    /\ further_work_of(calls) = taken_from_queue \o incoming
    /\ \A d \in 1..Len(dispatched) :
          dispatched[d].from_queue =>
              Len(further_work_of(calls_before(d)))
                  >= Len(SelectSeq(SubSeq(dispatched, 1, d), LAMBDA x : x.from_queue))
    /\ \A i \in 1..Len(calls) : calls[i].event = dispatched[calls[i].dispatch].event

C12_Witness ==
    /\ passed = 1
    /\ Len(incoming) = 2
    /\ \E i \in 1..Len(calls) : calls[i].further_work = incoming
    /\ \A i \in 1..Len(calls) : calls[i].event \notin {incoming[1], incoming[2]}

\* The handlers that can handle the event, in their configured order.
able_handlers(e) == SelectSeq(Handlers, LAMBDA h : can_handle(h, e))

\* C13: for every dispatched event the handle of every handler that can handle it
\* is called, in the configured order, also after a handler before it has raised.
C13_EveryAbleHandlerIsCalled ==
    \A d \in 1..Len(dispatched) :
        LET cs == calls_of(d)
        IN  /\ [i \in 1..Len(cs) |-> cs[i].handler] = able_handlers(dispatched[d].event)
            /\ \A i \in 1..Len(cs) : cs[i].event = dispatched[d].event

C13_Witness ==
    \E d \in 1..Len(dispatched) :
        LET cs == calls_of(d)
        IN  /\ Len(cs) = 2
            /\ cs[1].raised
            /\ cs[1].handler = "RecordInDatabase"
            /\ cs[2].handler = "TriggerRebuild"
            /\ ~cs[2].raised

\* The advance requests made for the build with the id `id`, oldest first.
advances_of(id) == SelectSeq(advances, LAMBDA a : a.build = id)

\* The state a request leaves the build in.
state_after(a) == IF a.invalid_transition THEN a.from ELSE a.to

\* C14: advance changes a build's state only along PLANNED -> BUILDING,
\* BUILDING -> DONE, BUILDING -> FAILED and PLANNED -> FAILED; every other request
\* fails with an invalid-transition error and leaves the state as it was, so every
\* build starts PLANNED and never leaves DONE or FAILED.
C14_AdvanceAlongEdgesOnly ==
    /\ \A k \in DOMAIN advances :
          advances[k].invalid_transition <=>
              <<advances[k].from, advances[k].to>> \notin
                  {<<"PLANNED", "BUILDING">>, <<"BUILDING", "DONE">>,
                   <<"BUILDING", "FAILED">>, <<"PLANNED", "FAILED">>}
    /\ \A i \in DOMAIN db :
          LET as == advances_of(db[i].id)
          IN  /\ db[i].state = IF as = <<>> THEN "PLANNED" ELSE state_after(as[Len(as)])
              /\ as # <<>> => as[1].from = "PLANNED"
              /\ \A k \in 1..(Len(as) - 1) : as[k + 1].from = state_after(as[k])
              /\ \A j \in 1..Len(as) : \A k \in j..Len(as) :
                    as[j].from \in {"DONE", "FAILED"} =>
                        as[k].from = as[j].from /\ as[k].invalid_transition

C14_Witness ==
    \E i \in DOMAIN db :
        LET as == advances_of(db[i].id)
        IN  /\ Len(as) = 3
            /\ as[1].to = "BUILDING" /\ ~as[1].invalid_transition
            /\ as[2].to = "DONE" /\ ~as[2].invalid_transition
            /\ as[3].to = "BUILDING" /\ as[3].invalid_transition
            /\ db[i].state = "DONE"

\* C15: is_allowed is true iff there is no whitelist entry for the handler and the
\* type or the whitelist rule matches, and no blacklist entry matches: it is true
\* when there is neither entry, and false whenever a blacklist entry matches.
C15_IsAllowedFormula ==
    decided.called =>
        LET h == decided.handler_name
            t == decided.artifact_type
            a == decided.attributes
            in_whitelist == has_entry(decided.whitelist, h, t)
            in_blacklist == has_entry(decided.blacklist, h, t)
            whitelisted == matches(entry_of(decided.whitelist, h, t), a)
            blacklisted == matches(entry_of(decided.blacklist, h, t), a)
        IN  /\ decided.result <=>
                  ((~in_whitelist \/ whitelisted) /\ ~(in_blacklist /\ blacklisted))
            /\ (~in_whitelist /\ ~in_blacklist) => decided.result
            /\ (in_blacklist /\ blacklisted) => ~decided.result

C15_Witness ==
    /\ decided.called
    /\ has_entry(decided.whitelist, decided.handler_name, decided.artifact_type)
    /\ matches(entry_of(decided.whitelist, decided.handler_name, decided.artifact_type),
               decided.attributes)
    /\ has_entry(decided.blacklist, decided.handler_name, decided.artifact_type)
    /\ matches(entry_of(decided.blacklist, decided.handler_name, decided.artifact_type),
               decided.attributes)
    /\ ~decided.result

\* C16: all_ matches iff every rule of it matches, and matches when it has none;
\* any_ matches iff some rule of it matches, and does not match when it has none;
\* a rule whose value is a list of strings matches iff the attribute matches one of
\* the strings.
C16_RuleEvaluation ==
    matched.called =>
        LET r == matched.rule
            a == matched.attributes
        IN  /\ r.op = "all" =>
                  (matched.result <=> \A i \in DOMAIN r.rules : matches(r.rules[i], a))
            /\ (r.op = "all" /\ r.rules = <<>>) => matched.result
            /\ r.op = "any" =>
                  (matched.result <=> \E i \in DOMAIN r.rules : matches(r.rules[i], a))
            /\ (r.op = "any" /\ r.rules = <<>>) => ~matched.result
            /\ (r.op = "leaf" /\ r.value.type = "list") =>
                  (matched.result <=>
                      /\ r.attr \in DOMAIN a
                      /\ a[r.attr].type = "str"
                      /\ \E i \in DOMAIN r.value.l : regex_match(r.value.l[i], a[r.attr].s))

C16_Witness ==
    /\ matched.called
    /\ matched.rule = any_(<<leaf("severity", List(<<"critical", "important">>)),
                             any_(<<>>)>>)
    /\ "severity" \in DOMAIN matched.attributes
    /\ matched.attributes["severity"] = Str("critical")
    /\ matched.result

\* The strings prefix + "." + suffix of the configured prefixes and of the suffixes
\* the parsers of a registry declare.
declared_topics(ps, prefixes) ==
    LET declared == UNION {{topic_suffixes(ps[j])[k] : k \in DOMAIN topic_suffixes(ps[j])} :
                              j \in DOMAIN ps}
    IN  {<<prefixes[i], ".", suffix>> : i \in DOMAIN prefixes, suffix \in declared}

\* C17: get_parsed_topics returns exactly the strings prefix + "." + suffix of the
\* configured prefixes and the suffixes declared by the registered parsers, and
\* each of them once, also when two registered parsers declare the same suffix.
C17_TopicsEachOnce ==
    parsed_topics.called =>
        LET result == parsed_topics.result
        IN  /\ {result[i] : i \in DOMAIN result}
                = declared_topics(parsed_topics.parsers, parsed_topics.prefixes)
            /\ \A i, j \in DOMAIN result : result[i] = result[j] => i = j

\* The names a registry holds a parser for.
names_of(ps) == {ps[i] : i \in DOMAIN ps}

\* C18: the registry holds one parser per distinct name; registering a class that
\* is already registered leaves the names, the result of get_parsed_topics and the
\* result of every from_fedmsg call as they were, and registering a new class adds
\* its name.
C18_ReRegistrationIsIdempotent ==
    /\ \A i, j \in DOMAIN parsers : parsers[i] = parsers[j] => i = j
    /\ registration.parser_class # None =>
        LET before == registration.before
            p == registration.parser_class
        IN  IF p \in names_of(before)
            THEN /\ names_of(parsers) = names_of(before)
                 /\ \A prefixes \in TopicPrefixConfigs :
                        get_parsed_topics(parsers, prefixes)
                            = get_parsed_topics(before, prefixes)
                 /\ \A t \in Topics, m \in Messages :
                        from_fedmsg(parsers, t, m) = from_fedmsg(before, t, m)
            ELSE names_of(parsers) = names_of(before) \cup {p}

\* The first of two registered parsers of the same suffix was registered again.
C18_Witness ==
    /\ registration.before = <<"TestingParser", "GitReceiveParser">>
    /\ registration.parser_class = "TestingParser"
    /\ parsers = registration.before

\* The registered parsers that can parse (t, m).
able_parsers(t, m) == {p \in names_of(parsers) : can_parse(p, t, m)}

\* C19: when several registered parsers can parse the same topic and message and
\* each of them would make an event of it, from_fedmsg returns the event of the one
\* registered first. Here for a registry whose last registration added a new
\* class: that class was registered after every other one, so the event returned
\* is the event of one of the parsers registered before it.
C19_FirstRegisteredWins ==
    [][\A t \in Topics, m \in Messages :
        LET able == able_parsers(t, m)
            last == registration.parser_class
        IN  (/\ Classify(t, m)
             /\ last \in able
             /\ last \notin names_of(registration.before)
             /\ Cardinality(able) >= 2
             /\ \A p \in able : parse(p, t, m) # NoEvent)
            => event' \in {parse(p, t, m) : p \in able \ {last}}]_vars

\* The event the claim C21 names for a message: ModuleMetadataUpdated of a payload
\* with a non-empty msg holding a non-empty commit of namespace modules, else none.
module_metadata_of(m) ==
    LET has_msg == "msg" \in DOMAIN m /\ DOMAIN m["msg"] # {}
        has_commit == has_msg /\ "commit" \in DOMAIN m["msg"]
                              /\ DOMAIN m["msg"]["commit"] # {}
        commit == m["msg"]["commit"]
    IN  IF has_commit /\ "namespace" \in DOMAIN commit /\ commit["namespace"] = "modules"
        THEN [kind |-> "ModuleMetadataUpdated",
              msg_id |-> IF "msg_id" \in DOMAIN m THEN m["msg_id"] ELSE None,
              scm_url |-> git_base_url \o "/modules/" \o commit["repo"] \o ".git?#"
                              \o commit["rev"],
              branch |-> commit["branch"]]
        ELSE NoEvent

C22_UnmatchedTopicIsDropped ==
    [][\A t \in Topics, m \in Messages :
        (/\ Classify(t, m)
         /\ \A i \in DOMAIN parsers : ~can_parse(parsers[i], t, m))
        => /\ event' = NoEvent
           /\ parsers' = parsers
           /\ db' = db]_vars

\* A buildsys.tag message with a modules commit was dropped by the three parsers.
C22_Witness ==
    /\ Len(parsers) = 3
    /\ parsed_topics = NoCall
    /\ topic = <<TopicPrefix, ".", "buildsys.tag">>
    /\ msg = [msg_id |-> "2017-1", msg |-> [commit |-> Commit("modules")]]
    /\ event = NoEvent

\* C23: the Pulp repository ids given to the content-set lookup are the ids the
\* advisories answered, each once, in sorted order, so that they are the same list
\* in every run with the same answers.
C23_MergedIdsSortedAndUnique ==
    (lookup.called /\ lookup.content_sets_asked) =>
        LET merged == lookup.pulp_repo_ids
            answers == lookup.pulp_answers
        IN  /\ {merged[i] : i \in DOMAIN merged}
                = UNION {{answers[a][k] : k \in DOMAIN answers[a]} : a \in DOMAIN answers}
            /\ \A i, j \in DOMAIN merged : i < j => merged[i] < merged[j]

\* The advisories of the call that allow_build let pass.
passed_gate(advs) == {advs[i].errata_id : i \in {k \in DOMAIN advs : advs[k].allowed}}

\* C29: builds_signed is asked only about advisories that passed allow_build; an
\* unsigned advisory that was denied does not empty the plan (with every allowed
\* advisory signed the lookups go on to the content sets); and with every advisory
\* denied the plan is empty and neither builds_signed nor the content-set lookup
\* nor the inventory is asked.
C29_SignedCheckedAfterGate ==
    lookup.called =>
        LET advs == lookup.advisories
            asked_ids == {lookup.signed_asked[i] : i \in DOMAIN lookup.signed_asked}
        IN  /\ asked_ids \subseteq passed_gate(advs)
            /\ (/\ passed_gate(advs) # {}
                /\ \A i \in DOMAIN advs : advs[i].allowed => advs[i].signed)
               => /\ lookup.content_sets_asked
                  /\ lookup.lightblue_asked \/ lookup.raised
                  /\ asked_ids = passed_gate(advs)
            /\ passed_gate(advs) = {}
               => /\ lookup.batches = <<>>
                  /\ lookup.signed_asked = <<>>
                  /\ ~lookup.content_sets_asked
                  /\ ~lookup.lightblue_asked
                  /\ ~lookup.raised

\* A denied advisory with unsigned builds came before an allowed signed one, and
\* the inventory answered with images to rebuild.
C29_Witness ==
    /\ lookup.called
    /\ Len(lookup.advisories) = 2
    /\ ~lookup.advisories[1].allowed /\ ~lookup.advisories[1].signed
    /\ lookup.advisories[2].allowed /\ lookup.advisories[2].signed
    /\ lookup.signed_asked = <<2>>
    /\ lookup.lightblue_asked
    /\ lookup.batches # <<>>

\* C24: the MBS handler can handle a module-built event exactly when the state of
\* the module build is ready: not when it is init, wait, build, done or failed.
C24_CanHandleReadyOnly ==
    (asked.called /\ asked.event.kind = "ModuleBuilt") =>
        /\ asked.event.module_build_state = "ready" => asked.result
        /\ asked.event.module_build_state \in {"init", "wait", "build", "done", "failed"}
           => ~asked.result

\* can_handle was asked about a module build that is ready and answered yes.
C24_Witness ==
    /\ asked.called
    /\ asked.event.kind = "ModuleBuilt"
    /\ asked.event.module_build_state = "ready"
    /\ asked.result

\* C25: a git.receive message of a repository in namespace rpms is made into an
\* event the MBS handler can handle exactly when a .spec file is among the changed
\* files.
C25_SpecChangeIsHandled ==
    (/\ asked.called
     /\ asked.topic # <<>>
     /\ endswith(asked.topic, "git.receive")
     /\ "msg" \in DOMAIN asked.msg
     /\ "commit" \in DOMAIN asked.msg["msg"]
     /\ "files" \in DOMAIN asked.msg["msg"]["commit"]
     /\ asked.msg["msg"]["commit"]["namespace"] = "rpms")
    => (asked.result
            <=> \E f \in asked.msg["msg"]["commit"]["files"] : f[Len(f)] = ".spec")

\* The depending releases, in the order returned, that are the newest release PDC
\* knows of their module.
newest_depending(depending, rel) ==
    SelectSeq(depending,
              LAMBDA mod : \A r \in rel[mod.variant_name] : r <= mod.variant_release)

\* C26: on a module-built event rebuild_module is called once for each module whose
\* latest release build-depends on the module and never for a module of which only
\* an older release does; each call gets <git base url>/modules/<name>.git?#<commit
\* hash> and the module's branch, and the calls come in the order the depending
\* modules were returned.
C26_RebuildsLatestDependingModules ==
    rebuilds.called =>
        LET mods == newest_depending(rebuilds.depending, rebuilds.releases)
            made == rebuilds.calls
        IN  /\ Len(made) = Len(mods)
            /\ \A i \in DOMAIN made :
                  /\ made[i].scm_url = "git://pkgs.fedoraproject.org/modules/"
                                           \o mods[i].variant_name \o ".git?#commit-of-"
                                           \o mods[i].variant_name
                  /\ made[i].branch = "master"
            /\ \A i, j \in DOMAIN made : made[i].scm_url = made[j].scm_url => i = j

\* testmodule2 and the older release of testmodule3 depend on testmodule, a newer
\* release of testmodule3 exists, and only testmodule2 was rebuilt.
C26_Witness ==
    /\ rebuilds.called
    /\ rebuilds.depending = <<PDCModuleInfo("testmodule2", 1), PDCModuleInfo("testmodule3", 1)>>
    /\ rebuilds.releases = [n \in ModuleNames |-> IF n = "testmodule3" THEN {1, 2} ELSE {1}]
    /\ Len(rebuilds.calls) = 1
    /\ rebuilds.calls[1].branch = "master"

\* C27 as claimed: in a run that ended with the compose done or failed the states
\* seen never went back from 1 to 0, and 1 was seen before the 2 or the 4.
C27_ObservedStatesInOrder ==
    (pc = "done" /\ state \in {2, 4} /\ polls <= MaxPolls) =>
        /\ \A i \in 1..(Len(statuses) - 1) : ~(statuses[i] = 1 /\ statuses[i + 1] = 0)
        /\ \E i \in 1..(Len(statuses) - 1) : statuses[i] = 1

\* C27 amended: the wait loop looks at the state of each poll alone: whatever 0s and
\* 1s came before and in whatever order, the first 2 ends the run with the result
\* repository and the first 4 ends it with None, also at the first poll.
C27_EachPollJudgedAlone ==
    (polls >= 1 /\ polls <= MaxPolls) =>
        LET last == statuses[Len(statuses)]
        IN  /\ polls = Len(statuses)
            /\ last = state
            /\ \A i \in 1..(Len(statuses) - 1) : statuses[i] \in {0, 1}
            /\ last \in {0, 1} => pc = "poll" /\ repo_url = Unset
            /\ last = 2 => pc = "done" /\ repo_url = new_compose.result_repo
            /\ last = 4 => pc = "done" /\ repo_url = None

\* The compose was seen generating, then waiting, then done, and the result
\* repository was returned.
C27_Witness ==
    /\ statuses = <<1, 0, 2>>
    /\ pc = "done"
    /\ repo_url = new_compose.result_repo

\* C28: the plan is persisted before the compose is asked for: once odcs.new_compose
\* was called, and at every poll after it, a committed build exists for every image
\* of every batch, in the order of the batches.
C28_PlanPersistedBeforeCompose ==
    (new_compose # NoCompose \/ polls >= 1 \/ pc = "poll") =>
        /\ batches # <<>>
        /\ Len(plan_rows) = Len(plan_images)
        /\ \A k \in 1..Len(plan_images) :
              /\ plan_rows[k].name = plan_images[k].name
              /\ plan_rows[k].event_id = EventId

\* The compose of a plan of two batches is being polled.
C28_Witness ==
    /\ Len(batches) = 2
    /\ new_compose # NoCompose
    /\ pc = "poll"
    /\ polls = 1
    /\ Len(plan_rows) >= 2

\* C30: handle never advances a build: once it has returned, whether the compose
\* was done, failed, in a state it does not know, or never asked for because the
\* build is not the latest of its candidate tag, every build it recorded is
\* PLANNED with build id 0, and the list of events it returned is empty.
C30_ReturnsNothingAndLeavesPlanned ==
    /\ returned.returned <=> pc = "done"
    /\ returned.returned =>
        /\ returned.events = <<>>
        /\ Len(plan_rows) = Len(plan_images)
        /\ \A k \in 1..Len(plan_rows) :
              /\ plan_rows[k].state = PLANNED
              /\ plan_rows[k].build_id = 0

\* handle returned after the compose of a plan of two images or more was done.
C30_Witness ==
    /\ returned.returned
    /\ state = 2
    /\ repo_url = ResultRepo(new_compose.id)
    /\ Len(plan_rows) >= 2
    /\ polls >= 2

\* C31: with an empty plan (no advisory left by the filter, an advisory with
\* unsigned builds, or no image found) handle returns an empty list and leaves
\* everything as it was: no build is recorded or committed, no compose is asked
\* for, no poll is made and nothing is logged as an error.
C31_EmptyPlanChangesNothing ==
    (batches = <<>> /\ pc \notin {"handle", "raised"}) =>
        /\ pc = "done"
        /\ returned = Returned(<<>>)
        /\ db = <<EarlierRow>>
        /\ builds = EmptyDict
        /\ new_compose = NoCompose
        /\ state = NoState
        /\ statuses = <<>>
        /\ polls = 0
        /\ repo_url = Unset
        /\ errors = <<>>

\* handle returned after the inventory, asked with signed advisories, found no image.
C31_Witness ==
    /\ pc = "done"
    /\ batches = <<>>
    /\ Len(advisories) = 2
    /\ all_builds_signed(advisories)
    /\ returned.returned

\* C32: when the signed build has no source RPM, _find_build_srpm_name raises and
\* handle is aborted before any effect: the inventory is not asked for images, no
\* build is recorded and no compose is asked for; the inventory is asked only
\* after a source RPM was found.
C32_NoSrpmAbortsBeforeAnyEffect ==
    /\ (rpm_infos.called /\ rpm_infos.answer = <<>>) =>
        /\ pc = "raised"
        /\ ~returned.returned
        /\ inventory = NoInventory
        /\ batches = <<>>
        /\ db = <<EarlierRow>>
        /\ builds = EmptyDict
        /\ new_compose = NoCompose
        /\ polls = 0
    /\ inventory # NoInventory => (rpm_infos.called /\ rpm_infos.answer # <<>>)

\* The build of two signed advisories had no source RPM and handle was aborted.
C32_Witness ==
    /\ rpm_infos = Answered(<<>>)
    /\ pc = "raised"
    /\ Len(advisories) = 2
    /\ all_builds_signed(advisories)

====
